---- MODULE Spec2Model ----
(***************************************************************************)
(* Model of the "imports" command of gvt (src/imports.go): the recursive   *)
(* crawl / classify / fetch / recurse orchestrator, the tree import        *)
(* collector and the remote dependency classifier.                         *)
(*                                                                         *)
(* Import identifiers are sequences of one-character strings, so that the  *)
(* classifier is computed character by character as the code does.         *)
(***************************************************************************)
EXTENDS Integers, Sequences, FiniteSets, TLC

VARIABLES
  name, remote,                 \* classifier run: argument and result
  files, pos, imports, werr,    \* collector run: walk order, position, set, error
  rootTree, up,                 \* the project's source tree, the upstream state
  disk, vdirs, manifestFile,    \* vendored package dirs, dirs holding vendor/, saved manifest
  cwd, manifest,                \* Working Directory Context, in-memory manifest
  stack, err, phase, mode,      \* call stack of imports(), pending error, run phase
  runs, start, log, lastRet, prevManifest   \* bookkeeping of the run being observed

vars == << name, remote, files, pos, imports, werr, rootTree, up, disk, vdirs,
           manifestFile, cwd, manifest, stack, err, phase, mode, runs, start,
           log, lastRet, prevManifest >>

walkVars == << files, pos, imports, werr >>
classVars == << name, remote >>
orchVars == << rootTree, up, disk, vdirs, manifestFile, cwd, manifest, stack,
               err, phase, mode, runs, start, log, lastRet, prevManifest >>

----------------------------------------------------------------------------
(* Bounds *)

MaxLen == 4
MaxFiles == 3
MaxRuns == 2
MaxDepth == 5

----------------------------------------------------------------------------
(* Strings as character sequences *)

Alphabet == {"x", ".", "/", "@", "?", "#", "%"}

RECURSIVE StringsUpTo(_)
StringsUpTo(n) ==
  IF n = 0 THEN {<< >>}
  ELSE LET S == StringsUpTo(n - 1)
       IN  S \cup {Append(s, c) : s \in {t \in S : Len(t) = n - 1}, c \in Alphabet}

HasPrefix(s, p) == Len(s) >= Len(p) /\ SubSeq(s, 1, Len(p)) = p

Contains(s, c) == \E i \in 1..Len(s) : s[i] = c

\* index of the first / last occurrence of c in s, 0 when absent
Index(s, c) ==
  IF Contains(s, c) THEN CHOOSE i \in 1..Len(s) : s[i] = c /\ \A j \in 1..(i-1) : s[j] # c
  ELSE 0

LastIndex(s, c) ==
  IF Contains(s, c) THEN CHOOSE i \in 1..Len(s) : s[i] = c /\ \A j \in (i+1)..Len(s) : s[j] # c
  ELSE 0

----------------------------------------------------------------------------
(* Remote Dependency Classifier *)

\* go/build.IsLocalImport
IsLocalImport(path) ==
  \/ path = <<".">>
  \/ path = <<".", ".">>
  \/ HasPrefix(path, <<".", "/">>)
  \/ HasPrefix(path, <<".", ".", "/">>)

\* net/url.Parse("http://" + n): the fragment is cut at the first '#', the
\* query at the first '?', the authority runs to the first '/', the host is
\* what follows the last '@' of the authority; authority, path and fragment
\* are percent-decoded, and a '%' not followed by two hex digits is an
\* error (the alphabet has no hex digit).
UrlParse(n) ==
  LET h    == Index(n, "#")
      u    == IF h = 0 THEN n ELSE SubSeq(n, 1, h - 1)
      frag == IF h = 0 THEN << >> ELSE SubSeq(n, h + 1, Len(n))
      q    == Index(u, "?")
      rest == IF q = 0 THEN u ELSE SubSeq(u, 1, q - 1)
      s    == Index(rest, "/")
      auth == IF s = 0 THEN rest ELSE SubSeq(rest, 1, s - 1)
      a    == LastIndex(auth, "@")
      host == IF a = 0 THEN auth ELSE SubSeq(auth, a + 1, Len(auth))
  IN  [err |-> Contains(rest, "%") \/ Contains(frag, "%"), Host |-> host]

packageIsRemoteDependencyNoLocal(n) ==
  LET url == UrlParse(n)
  IN  IF url.err THEN FALSE ELSE Contains(url.Host, ".")

packageIsRemoteDependency(n) ==
  IF IsLocalImport(n) THEN FALSE
  ELSE LET url == UrlParse(n)
       IN  IF url.err THEN FALSE ELSE Contains(url.Host, ".")

----------------------------------------------------------------------------
(* Import Extractor and Tree Import Collector *)

Q == "\""

Quote(id) == <<Q>> \o id \o <<Q>>

\* strings.TrimLeft / TrimRight for a one-character cutset
TrimLeft(s, c) ==
  LET k == CHOOSE n \in 0..Len(s) :
             (\A j \in 1..n : s[j] = c) /\ (n = Len(s) \/ s[n + 1] # c)
  IN  SubSeq(s, k + 1, Len(s))

TrimRight(s, c) ==
  LET k == CHOOSE n \in 0..Len(s) :
             (\A j \in (Len(s) - n + 1)..Len(s) : s[j] = c)
             /\ (n = Len(s) \/ s[Len(s) - n] # c)
  IN  SubSeq(s, 1, Len(s) - k)

\* strings.Trim(s, cutset) for a one-character cutset
Trim(s, c) == TrimRight(TrimLeft(s, c), c)

HasSuffix(s, p) == Len(s) >= Len(p) /\ SubSeq(s, Len(s) - Len(p) + 1, Len(s)) = p

GoSuffix == <<".", "g", "o">>
GoName == <<"x", ".", "g", "o">>
OtherName == <<"x", "g", "o">>

NoErr == "none"

\* A file of a source tree: its name, the import literals of its header,
\* and whether parsing it ("parse") or reaching it ("walk") fails.
File(n, l, b) == [name |-> n, lits |-> l, bad |-> b]

\* sourceFileImports: the declared literals, quotes trimmed, in order
sourceFileImports(f) ==
  IF f.bad = "parse" THEN [err |-> "ParseError", imports |-> << >>]
  ELSE [err |-> NoErr, imports |-> [k \in 1..Len(f.lits) |-> Trim(f.lits[k], Q)]]

\* walkFunc without the suffix test
walkFuncAnySuffix(f, acc) ==
  IF f.bad = "walk" THEN [err |-> "WalkError", imports |-> acc]
  ELSE LET r == sourceFileImports(f)
       IN  IF r.err # NoErr THEN [err |-> r.err, imports |-> acc]
           ELSE [err |-> NoErr,
                 imports |-> acc \cup {r.imports[k] : k \in 1..Len(r.imports)}]

\* walkFunc: the callback of filepath.Walk, applied to one entry
walkFunc(f, acc) ==
  IF f.bad = "walk" THEN [err |-> "WalkError", imports |-> acc]
  ELSE IF ~HasSuffix(f.name, GoSuffix) THEN [err |-> NoErr, imports |-> acc]
  ELSE LET r == sourceFileImports(f)
       IN  IF r.err # NoErr THEN [err |-> r.err, imports |-> acc]
           ELSE [err |-> NoErr,
                 imports |-> acc \cup {r.imports[k] : k \in 1..Len(r.imports)}]

\* importWorker: filepath.Walk over the entries in traversal order,
\* stopping at the first error
RECURSIVE importWorker(_, _)
importWorker(fs, acc) ==
  IF fs = << >> THEN [err |-> NoErr, imports |-> acc]
  ELSE LET r == walkFunc(Head(fs), acc)
       IN  IF r.err # NoErr THEN r ELSE importWorker(Tail(fs), r.imports)

----------------------------------------------------------------------------
(* The universe of the orchestrator *)

GITHUB == <<"g", "i", "t", "h", "u", "b", ".", "c", "o", "m">>

PA == GITHUB \o <<"/", "x">>
PB == <<"x", ".", "x">>
PC == GITHUB \o <<".", "x">>
STD == <<"x">>
LOC == <<".", "/", "x">>
SUB == <<"x", "/", "x", ".", "x">>

Remote == {PA, PB, PC}
NonRemoteIds == {STD, LOC, SUB}

RECURSIVE SetToSeq(_)
SetToSeq(S) ==
  IF S = {} THEN << >>
  ELSE LET x == CHOOSE y \in S : TRUE IN <<x>> \o SetToSeq(S \ {x})

ToSet(s) == {s[k] : k \in 1..Len(s)}

Perms(S) == {s \in [1..Cardinality(S) -> S] : ToSet(s) = S}

\* A source tree declaring the imports S: a source file declaring them (the
\* first one twice), a file without the source suffix, and, when bad, a
\* source file that does not parse.
MkTree(S, bad) ==
  LET l == SetToSeq(S)
      lits == [k \in 1..Len(l) |-> Quote(l[k])]
  IN  << File(GoName, IF lits = << >> THEN lits ELSE lits \o <<lits[1]>>, NoErr),
         File(OtherName, <<Quote(PC)>>, NoErr) >>
      \o (IF bad THEN <<File(GoName, << >>, "parse")>> ELSE << >>)

\* the source trees the project root is drawn from
Trees == {MkTree(R \cup NonRemoteIds, FALSE) : R \in {{}, {PA}, {PB, PC}, Remote}}

BadTree == MkTree({PB}, TRUE)

\* a source tree with an entry the walk cannot reach
WalkBadTree == MkTree({PA}, FALSE) \o <<File(OtherName, << >>, "walk")>>

Succ(p) == IF p = PA THEN PB ELSE IF p = PB THEN PC ELSE PA

Unknown == [st |-> "unknown"]

\* what a fetch of p can reveal about the upstream package: the fetch fails,
\* or it delivers a source tree: one importing nothing remote, the next
\* package, or every package (itself included); one that does not parse; or
\* one that ships a vendor directory of its own
Upstreams(p) ==
  {[st |-> "fail"]}
  \cup [st : {"ok"}, ships : {FALSE},
        tree : {MkTree(NonRemoteIds, FALSE), MkTree({Succ(p)} \cup NonRemoteIds, FALSE),
                MkTree(Remote, FALSE), BadTree}]
  \cup {[st |-> "ok", tree |-> MkTree(Remote, FALSE), ships |-> TRUE]}

Root == << >>
NoFile == <<"no file">>
None == [set |-> FALSE]

\* the arguments of the direct calls imports(Root, isRoot, m)
Calls == {[m |-> << >>, isRoot |-> FALSE], [m |-> <<PB>>, isRoot |-> TRUE],
          [m |-> <<PC, PA>>, isRoot |-> TRUE], [m |-> <<PB>>, isRoot |-> FALSE]}

----------------------------------------------------------------------------
(* External collaborators: manifest store, file system, fetch *)

\* vendor.ReadManifest: a missing manifest file reads as the empty manifest
ReadManifest(f) == IF f = NoFile THEN << >> ELSE f

\* Manifest.HasImportpath
HasImportpath(m, pkg) == \E k \in 1..Len(m) : m[k] = pkg

\* os.Chdir, its error ignored: the context moves only to an existing directory
Chdir(d) == IF d = Root \/ d \in disk THEN d ELSE cwd

IsProperPrefix(d, e) == Len(d) < Len(e) /\ SubSeq(e, 1, Len(d)) = d

OwnTree(d) == IF d = Root THEN rootTree ELSE up[d[Len(d)]].tree

RECURSIVE ConcatTrees(_)
ConcatTrees(ds) ==
  IF ds = << >> THEN << >> ELSE OwnTree(Head(ds)) \o ConcatTrees(Tail(ds))

\* the entries filepath.Walk(dir) reaches: the directory's own files and
\* those of every package vendored below it
TreeAt(dir) ==
  OwnTree(dir) \o ConcatTrees(SetToSeq({d \in disk : IsProperPrefix(dir, d)}))

\* an entry of the run's trace: what happened, to which identifier, in which
\* Working Directory Context and at which recursion depth
Event(e, pkg, ok) ==
  [ev |-> e, pkg |-> pkg, cwd |-> cwd, depth |-> Len(stack),
   dir |-> IF stack = << >> THEN Root ELSE stack[Len(stack)].dir, ok |-> ok]

----------------------------------------------------------------------------
(* Vendor Orchestrator: imports(dir, isRoot, manifest) *)

\* a call of imports(): its arguments, its position, its worklist, and what
\* it found when it was entered (the context, whether vendorDir() existed,
\* whether it walked the tree, its Import Set, the manifest)
Frame(dir, isRoot) ==
  [dir |-> dir, isRoot |-> isRoot, pc |-> "enter", filteredImports |-> << >>,
   i |-> 1, entry |-> cwd, vex |-> FALSE, walked |-> FALSE, used |-> {},
   m |-> << >>]

Top == stack[Len(stack)]
Pop == SubSeq(stack, 1, Len(stack) - 1)
SetTop(f) == [stack EXCEPT ![Len(stack)] = f]

Ret(f, exit, ok) ==
  [set |-> TRUE, dir |-> f.dir, entry |-> f.entry, exit |-> exit, ok |-> ok,
   isRoot |-> f.isRoot, vex |-> f.vex, walked |-> f.walked,
   worklist |-> f.filteredImports, mEntry |-> f.m, mExit |-> manifest]

\* vendorDir(): the vendor directory of the current working directory,
\* named here by the directory it is the child of
vendorDir == cwd

\* lines 71-74
vendorDirExists == vendorDir \in vdirs

\* lines 79-84 with the crawl done whatever isRoot and the vendor dir say
usedImportsAlways(f) ==
  LET r == importWorker(TreeAt(f.dir), {})
  IN  [err |-> r.err, imports |-> r.imports, walked |-> TRUE]

\* lines 79-84 with the crawl done for the root call only
usedImportsRootOnly(f) ==
  IF f.isRoot
  THEN LET r == importWorker(TreeAt(f.dir), {})
       IN  [err |-> r.err, imports |-> r.imports, walked |-> TRUE]
  ELSE [err |-> NoErr, imports |-> {}, walked |-> FALSE]

\* lines 68-84: the Import Set of the call, or the crawl's error
usedImports(f) ==
  IF f.isRoot \/ ~vendorDirExists
  THEN LET r == importWorker(TreeAt(f.dir), {})
       IN  [err |-> r.err, imports |-> r.imports, walked |-> TRUE]
  ELSE [err |-> NoErr, imports |-> {}, walked |-> FALSE]

\* lines 86-92 without the classifier
filteredImportsAll(used) == used

\* lines 86-92
filteredImports(used) == {p \in used : packageIsRemoteDependency(p)}

\* lines 100-104 with the check dropped
ShouldSkipNever(m, pkg) == FALSE

\* lines 100-104 checking the manifest as it was when the run started
ShouldSkipStale(m, pkg) == \E k \in 1..Len(start.m) : start.m[k] = pkg

\* lines 100-104: the per-entry manifest check
ShouldSkip(m, pkg) == HasImportpath(m, pkg)

\* lines 107-109: the pacing delay before a fetch from the rate-limited host
Pace(pkg) == IF HasPrefix(pkg, GITHUB) THEN <<Event("delay", pkg, TRUE)>> ELSE << >>

Running == phase = "running" /\ err = NoErr /\ stack # << >>

\* cmdImports.Run without the reset of line 47
StartRunNoReset ==
  /\ phase = "idle" \/ (phase = "done" /\ mode = "run" /\ err = NoErr)
  /\ runs < MaxRuns
  /\ runs' = runs + 1 /\ mode' = "run" /\ phase' = "running"
  /\ cwd' = Root
  /\ manifest' = ReadManifest(manifestFile)
  /\ start' = [m |-> manifest', crawls |-> TRUE]
  /\ stack' = <<[Frame(Root, TRUE) EXCEPT !.entry = Root]>>
  /\ err' = NoErr /\ lastRet' = None
  /\ log' = <<[Event("load", << >>, TRUE) EXCEPT !.cwd = Root]>>
  /\ prevManifest' = IF phase = "done" /\ mode = "run" /\ err = NoErr
                     THEN [set |-> TRUE, m |-> manifest] ELSE None
  /\ UNCHANGED << rootTree, up, disk, vdirs, manifestFile, classVars, walkVars >>

\* cmdImports.Run, lines 40-56: a new process in the project root
StartRun ==
  /\ phase = "idle" \/ (phase = "done" /\ mode = "run" /\ err = NoErr)
  /\ runs < MaxRuns
  /\ runs' = runs + 1 /\ mode' = "run" /\ phase' = "running"
  /\ cwd' = Root
  /\ disk' = {} /\ vdirs' = {} /\ manifestFile' = NoFile
  /\ manifest' = ReadManifest(manifestFile')
  /\ start' = [m |-> manifest', crawls |-> TRUE]
  /\ stack' = <<[Frame(Root, TRUE) EXCEPT !.entry = Root]>>
  /\ err' = NoErr /\ lastRet' = None
  /\ log' = <<[Event("removeAll", << >>, TRUE) EXCEPT !.cwd = Root],
              [Event("load", << >>, TRUE) EXCEPT !.cwd = Root]>>
  /\ prevManifest' = IF phase = "done" /\ mode = "run" /\ err = NoErr
                     THEN [set |-> TRUE, m |-> manifest] ELSE None
  /\ UNCHANGED << rootTree, up, classVars, walkVars >>

\* a direct call imports(dir, isRoot, manifest) from the project root
StartCall ==
  /\ phase = "idle" /\ runs < MaxRuns
  /\ \E c \in Calls :
       /\ manifest' = c.m
       /\ start' = [m |-> c.m, crawls |-> c.isRoot \/ Root \notin vdirs]
       /\ stack' = <<[Frame(Root, c.isRoot) EXCEPT !.entry = Root]>>
  /\ runs' = runs + 1 /\ mode' = "call" /\ phase' = "running"
  /\ cwd' = Root /\ err' = NoErr /\ lastRet' = None /\ log' = << >>
  /\ prevManifest' = None
  /\ UNCHANGED << rootTree, up, disk, vdirs, manifestFile, classVars, walkVars >>

\* a call that has just been entered
AtEnter == Running /\ Top.pc = "enter"

\* lines 68-92: crawl, classify, build the worklist in map iteration order
Crawl ==
  /\ AtEnter
  /\ LET r == usedImports(Top) IN
       /\ r.err = NoErr
       /\ \E order \in Perms(filteredImports(r.imports)) :
            stack' = SetTop([Top EXCEPT !.pc = "loop", !.filteredImports = order,
                                        !.vex = vendorDirExists, !.walked = r.walked,
                                        !.used = r.imports, !.m = manifest])
       /\ log' = IF r.walked THEN Append(log, Event("crawl", << >>, TRUE)) ELSE log
  /\ UNCHANGED << rootTree, up, disk, vdirs, manifestFile, cwd, manifest, err,
                  phase, mode, runs, start, lastRet, prevManifest,
                  classVars, walkVars >>

\* lines 81-83 with the crawl's error logged and dropped: the call goes on
\* with the imports gathered before the error
CrawlFailContinues ==
  /\ AtEnter
  /\ LET r == usedImports(Top) IN
       /\ r.err # NoErr
       /\ \E order \in Perms(filteredImports(r.imports)) :
            stack' = SetTop([Top EXCEPT !.pc = "loop", !.filteredImports = order,
                                        !.vex = vendorDirExists, !.walked = r.walked,
                                        !.used = r.imports, !.m = manifest])
  /\ log' = Append(log, Event("crawl", << >>, FALSE))
  /\ UNCHANGED << rootTree, up, disk, vdirs, manifestFile, cwd, manifest, err,
                  phase, mode, runs, start, lastRet, prevManifest,
                  classVars, walkVars >>

\* lines 81-83: the crawl fails and the call returns its error
CrawlFail ==
  /\ AtEnter
  /\ LET r == usedImports(Top) IN
       /\ r.err # NoErr
       /\ err' = r.err
       /\ lastRet' = Ret([Top EXCEPT !.vex = vendorDirExists, !.walked = r.walked,
                                     !.used = r.imports, !.m = manifest], cwd, FALSE)
  /\ stack' = Pop
  /\ log' = Append(log, Event("crawl", << >>, FALSE))
  /\ UNCHANGED << rootTree, up, disk, vdirs, manifestFile, cwd, manifest,
                  phase, mode, runs, start, prevManifest, classVars, walkVars >>

InLoop == Running /\ Top.pc = "loop" /\ Top.i <= Len(Top.filteredImports)

Pkg == Top.filteredImports[Top.i]

\* lines 100-104 with a return in the place of the continue
SkipReturns ==
  /\ InLoop /\ ShouldSkip(manifest, Pkg)
  /\ lastRet' = Ret(Top, cwd, TRUE)
  /\ stack' = IF Len(stack) = 1 THEN << >>
              ELSE [Pop EXCEPT ![Len(stack) - 1].i = @ + 1]
  /\ log' = Append(log, Event("skip", Pkg, TRUE))
  /\ UNCHANGED << rootTree, up, disk, vdirs, manifestFile, cwd, manifest, err,
                  phase, mode, runs, start, prevManifest, classVars, walkVars >>

\* lines 100-104: "already vendored", continue (the unfinished "if" of
\* line 97 is not part of the loop body: check, skip, fetch, recurse)
Skip ==
  /\ InLoop /\ ShouldSkip(manifest, Pkg)
  /\ stack' = SetTop([Top EXCEPT !.i = @ + 1])
  /\ log' = Append(log, Event("skip", Pkg, TRUE))
  /\ UNCHANGED << rootTree, up, disk, vdirs, manifestFile, cwd, manifest, err,
                  phase, mode, runs, start, lastRet, prevManifest, classVars, walkVars >>

\* the upstream answers as it did before; a first answer is any of Upstreams
Reveals(pkg, u) == up[pkg] = Unknown \/ up[pkg] = u

\* lines 107-113 with the identifier registered although the fetch failed
FetchFailRegisters ==
  /\ InLoop /\ ~ShouldSkip(manifest, Pkg)
  /\ \E u \in Upstreams(Pkg) :
       /\ Reveals(Pkg, u) /\ u.st = "fail"
       /\ up' = [up EXCEPT ![Pkg] = u]
  /\ manifest' = Append(manifest, Pkg)
  /\ log' = log \o Pace(Pkg) \o <<Event("fetch", Pkg, FALSE)>>
  /\ err' = "FetchError"
  /\ stack' = Pop
  /\ lastRet' = Ret(Top, cwd, FALSE)
  /\ UNCHANGED << rootTree, disk, vdirs, manifestFile, cwd, phase,
                  mode, runs, start, prevManifest, classVars, walkVars >>

\* lines 107-113: pullDependency fails, the call returns the error
FetchFail ==
  /\ InLoop /\ ~ShouldSkip(manifest, Pkg)
  /\ \E u \in Upstreams(Pkg) :
       /\ Reveals(Pkg, u) /\ u.st = "fail"
       /\ up' = [up EXCEPT ![Pkg] = u]
  /\ log' = log \o Pace(Pkg) \o <<Event("fetch", Pkg, FALSE)>>
  /\ err' = "FetchError"
  /\ stack' = Pop
  /\ lastRet' = Ret(Top, cwd, FALSE)
  /\ UNCHANGED << rootTree, disk, vdirs, manifestFile, cwd, manifest, phase,
                  mode, runs, start, prevManifest, classVars, walkVars >>

\* lines 107-118: pullDependency succeeds, chdir into the vendored package,
\* call imports(workingDir, false, manifest)
FetchOk ==
  /\ InLoop /\ ~ShouldSkip(manifest, Pkg)
  /\ Len(stack) < MaxDepth
  /\ \E u \in Upstreams(Pkg) :
       /\ Reveals(Pkg, u) /\ u.st = "ok"
       /\ up' = [up EXCEPT ![Pkg] = u]
       /\ LET target == Append(vendorDir, Pkg) IN
            /\ disk' = disk \cup {target}
            /\ vdirs' = vdirs \cup {vendorDir} \cup (IF u.ships THEN {target} ELSE {})
            /\ cwd' = IF target \in disk' THEN target ELSE cwd
            /\ stack' = Append(stack, [Frame(cwd', FALSE) EXCEPT !.entry = cwd'])
  /\ manifest' = Append(manifest, Pkg)
  /\ log' = log \o Pace(Pkg) \o <<Event("fetch", Pkg, TRUE)>>
  /\ UNCHANGED << rootTree, manifestFile, err, phase, mode, runs, start, lastRet,
                  prevManifest, classVars, walkVars >>

\* lines 121-125: the worklist is exhausted: chdir(dir), return nil; the
\* caller's loop moves to its next entry
Return ==
  /\ Running /\ Top.pc = "loop" /\ Top.i > Len(Top.filteredImports)
  /\ cwd' = Chdir(Top.dir)
  /\ lastRet' = Ret(Top, cwd', TRUE)
  /\ stack' = IF Len(stack) = 1 THEN << >>
              ELSE [Pop EXCEPT ![Len(stack) - 1].i = @ + 1]
  /\ UNCHANGED << rootTree, up, disk, vdirs, manifestFile, manifest, err,
                  phase, mode, runs, start, log, prevManifest, classVars, walkVars >>

\* lines 118-120 with the nested call's error dropped: the loop goes on
PropagateSwallow ==
  /\ phase = "running" /\ err # NoErr /\ stack # << >>
  /\ err' = NoErr
  /\ stack' = SetTop([Top EXCEPT !.i = @ + 1])
  /\ UNCHANGED << rootTree, up, disk, vdirs, manifestFile, cwd, manifest,
                  phase, mode, runs, start, log, lastRet, prevManifest,
                  classVars, walkVars >>

\* lines 118-120: the nested call returned an error, the caller returns it
Propagate ==
  /\ phase = "running" /\ err # NoErr /\ stack # << >>
  /\ stack' = Pop
  /\ lastRet' = Ret(Top, cwd, FALSE)
  /\ UNCHANGED << rootTree, up, disk, vdirs, manifestFile, cwd, manifest, err,
                  phase, mode, runs, start, log, prevManifest, classVars, walkVars >>

\* cmdImports.Run, line 60: vendor.WriteManifest
RunSave ==
  /\ phase = "running" /\ mode = "run" /\ stack = << >> /\ err = NoErr
  /\ manifestFile' = manifest
  /\ log' = Append(log, Event("save", << >>, TRUE))
  /\ phase' = "done"
  /\ UNCHANGED << rootTree, up, disk, vdirs, cwd, manifest, stack, err, mode,
                  runs, start, lastRet, prevManifest, classVars, walkVars >>

\* cmdImports.Run with the manifest written on the error path too
RunFailSaves ==
  /\ phase = "running" /\ mode = "run" /\ stack = << >> /\ err # NoErr
  /\ manifestFile' = manifest
  /\ log' = Append(log, Event("save", << >>, TRUE))
  /\ phase' = "done"
  /\ UNCHANGED << rootTree, up, disk, vdirs, cwd, manifest, stack, err, mode,
                  runs, start, lastRet, prevManifest, classVars, walkVars >>

\* cmdImports.Run, lines 56-58: the error of imports() is returned
RunFail ==
  /\ phase = "running" /\ mode = "run" /\ stack = << >> /\ err # NoErr
  /\ phase' = "done"
  /\ UNCHANGED << rootTree, up, disk, vdirs, manifestFile, cwd, manifest,
                  stack, err, mode, runs, start, log, lastRet, prevManifest,
                  classVars, walkVars >>

\* the direct call has returned to its caller
CallDone ==
  /\ phase = "running" /\ mode = "call" /\ stack = << >>
  /\ phase' = "done"
  /\ UNCHANGED << rootTree, up, disk, vdirs, manifestFile, cwd, manifest,
                  stack, err, mode, runs, start, log, lastRet, prevManifest,
                  classVars, walkVars >>

Unset == [done |-> FALSE, val |-> FALSE]

IdleClass == name = << >> /\ remote = Unset
IdleWalk == files = << >> /\ pos = 1 /\ imports = {} /\ werr = "idle"

Init ==
  /\ IdleClass /\ IdleWalk
  /\ rootTree \in Trees \cup {BadTree, WalkBadTree}
  /\ up = [p \in Remote |-> Unknown]
  /\ disk = {}
  /\ vdirs \in {{}, {Root}}
  /\ manifestFile = (IF vdirs = {} THEN NoFile ELSE <<PC, PA>>)
  /\ cwd = Root /\ manifest = << >> /\ stack = << >> /\ err = NoErr
  /\ phase = "idle" /\ mode = "none" /\ runs = 0 /\ start = [m |-> << >>, crawls |-> FALSE]
  /\ log = << >> /\ lastRet = None /\ prevManifest = None

Next ==
  \/ StartRun \/ StartCall \/ Crawl \/ CrawlFail \/ Skip \/ FetchFail
  \/ FetchOk \/ Return \/ Propagate \/ RunSave \/ RunFail \/ CallDone

Spec == Init /\ [][Next]_vars

\* the steps other than the crawl of a call just entered
LoopStep ==
  \/ Skip \/ FetchFail \/ FetchOk \/ Return \/ Propagate \/ RunSave
  \/ RunFail \/ CallDone

IdleOrch ==
  /\ rootTree = MkTree({}, FALSE)
  /\ up = [p \in Remote |-> Unknown]
  /\ disk = {} /\ vdirs = {} /\ manifestFile = NoFile
  /\ cwd = Root /\ manifest = << >> /\ stack = << >> /\ err = NoErr
  /\ phase = "idle" /\ mode = "none" /\ runs = 0 /\ start = [m |-> << >>, crawls |-> FALSE]
  /\ log = << >> /\ lastRet = None /\ prevManifest = None

----------------------------------------------------------------------------
(* The classifier on its own: every identifier up to MaxLen characters *)

InitRemote ==
  /\ name \in StringsUpTo(MaxLen) /\ remote = Unset
  /\ IdleWalk /\ IdleOrch

Classify ==
  /\ ~remote.done
  /\ remote' = [done |-> TRUE, val |-> packageIsRemoteDependency(name)]
  /\ UNCHANGED << name, walkVars, orchVars >>

NextRemote == Classify

SpecRemote == InitRemote /\ [][NextRemote]_vars

----------------------------------------------------------------------------
(* The collector on its own: every walk of up to MaxFiles entries *)

LitSeqs == {<< >>, <<Quote(PB)>>, <<Quote(STD), Quote(PB)>>, <<Quote(PC), Quote(PC)>>}

FileKinds ==
  {File(n, l, NoErr) : n \in {GoName, OtherName}, l \in LitSeqs}
  \cup {File(GoName, <<Quote(PB)>>, "parse"), File(OtherName, <<Quote(PB)>>, "parse"),
        File(OtherName, << >>, "walk")}

RECURSIVE FileSeqs(_)
FileSeqs(n) ==
  IF n = 0 THEN {<< >>}
  ELSE LET S == FileSeqs(n - 1)
       IN  S \cup {Append(s, f) : s \in {t \in S : Len(t) = n - 1}, f \in FileKinds}

InitWalk ==
  /\ files \in FileSeqs(MaxFiles) /\ pos = 1 /\ imports = {} /\ werr = "walking"
  /\ IdleClass /\ IdleOrch

\* filepath.Walk calls walkFunc on the next entry; an error ends the walk
\* and importWorker returns it (lines 155-157)
WalkStep ==
  /\ werr = "walking" /\ pos <= Len(files)
  /\ LET r == walkFunc(files[pos], imports) IN
       IF r.err # NoErr
       THEN werr' = r.err /\ UNCHANGED << pos, imports >>
       ELSE imports' = r.imports /\ pos' = pos + 1 /\ UNCHANGED werr
  /\ UNCHANGED << files, classVars, orchVars >>

\* the walk is over: importWorker returns nil (line 159)
WalkReturn ==
  /\ werr = "walking" /\ pos > Len(files)
  /\ werr' = "ok"
  /\ UNCHANGED << files, pos, imports, classVars, orchVars >>

NextWalk == WalkStep \/ WalkReturn

SpecWalk == InitWalk /\ [][NextWalk]_vars

----------------------------------------------------------------------------
(* Properties *)

Fetches == {k \in 1..Len(log) : log[k].ev = "fetch"}
Finished == phase = "done"
Succeeded == phase = "done" /\ err = NoErr

\* C1: every call of imports() returns with the Working Directory Context
\* it was entered with, on success and on error alike.
C1_ContextRestored == lastRet.set => lastRet.exit = lastRet.entry

\* the remote-classified imports a crawl of a source tree yields
RemoteImports(tree) == filteredImports(importWorker(tree, {}).imports)

KnownTree(p) == IF up[p].st = "ok" THEN up[p].tree ELSE << >>

RECURSIVE Lfp(_, _)
Lfp(S, crawled) ==
  LET T == S \cup UNION {RemoteImports(KnownTree(p)) : p \in {q \in S : crawled[q]}}
  IN  IF T = S THEN S ELSE Lfp(T, crawled)

\* the transitive remote-import closure of the project's source tree
Closure == Lfp(RemoteImports(rootTree), [p \in Remote |-> TRUE])

\* the same closure through the packages that ship no vendor directory
CrawledClosure ==
  Lfp(RemoteImports(rootTree),
      [p \in Remote |-> up[p].st = "ok" /\ ~up[p].ships])

\* C2 (as stated): after a successful root-level run the identifiers of the
\* manifest are exactly the transitive remote-import closure of the tree.
C2_ManifestIsClosure ==
  (Succeeded /\ mode = "run") => ToSet(manifest) = Closure

\* C2 (amended): after a successful root-level run the identifiers of the
\* manifest are exactly the closure taken through the root tree and every
\* fetched package that ships no vendor directory of its own.
C2_ManifestIsCrawledClosure ==
  (Succeeded /\ mode = "run") => ToSet(manifest) = CrawledClosure

\* a successful root-level run that left a stale manifest behind and fetched
\* a package with its own vendor directory as well as one that was crawled
C2_Witness ==
  /\ Succeeded /\ mode = "run"
  /\ \E p \in ToSet(manifest) : up[p].ships
  /\ \E p \in ToSet(manifest) : ~up[p].ships /\ RemoteImports(up[p].tree) # {}
  /\ Cardinality(ToSet(manifest)) = 3

\* the work a call still has before it: its crawl, then its worklist entries
FrameWork(f) ==
  IF f.pc = "enter" THEN Cardinality(Remote) + 2
  ELSE Len(f.filteredImports) - f.i + 2

RECURSIVE StackWork(_)
StackWork(st) == IF st = << >> THEN 0 ELSE FrameWork(Head(st)) + StackWork(Tail(st))

\* a natural number that bounds the steps the run has left: the identifiers
\* still absent from the manifest weigh more than the call a fetch starts
Rank ==
  (Cardinality(Remote) + 3) * Cardinality(Remote \ ToSet(manifest))
  + StackWork(stack) + (IF phase = "running" THEN 1 ELSE 0)

\* C3: every started run terminates, whatever the dependency graph (import
\* cycles included): a running orchestrator can always take its next step
\* (a call just entered crawls or fails to; otherwise a step of the loop or
\* a return is enabled), and every step strictly decreases the natural number Rank, so the
\* recursion exhausts every worklist and the root call returns.
C3_Terminates ==
  /\ [](phase = "running" => (Rank > 0 /\ (AtEnter \/ ENABLED LoopStep)))
  /\ [][phase = "running" => Rank' < Rank]_vars

\* a successful run over two crawled packages that import each other, where
\* a nested call pruned an identifier already in the manifest
C3_Witness ==
  /\ Succeeded
  /\ \E p, q \in ToSet(manifest) :
       /\ p # q /\ up[p].st = "ok" /\ up[q].st = "ok"
       /\ ~up[p].ships /\ ~up[q].ships
       /\ q \in RemoteImports(up[p].tree) /\ p \in RemoteImports(up[q].tree)
  /\ \E k \in 1..Len(log) : log[k].ev = "skip" /\ log[k].depth >= 2
  /\ Rank = 0

\* C4: an identifier present in the manifest handed to the orchestrator is
\* never passed to the fetch operation, at any recursion depth.
C4_NoFetchOfVendored == \A k \in Fetches : log[k].pkg \notin ToSet(start.m)

\* a finished call that was handed a non-empty manifest, fetched something,
\* and met an identifier of that manifest in a nested call
C4_Witness ==
  /\ Finished /\ start.m # << >> /\ Fetches # {}
  /\ \E k \in 1..Len(log) :
       log[k].ev = "skip" /\ log[k].depth >= 2 /\ log[k].pkg \in ToSet(start.m)

\* C5: a failed fetch, at any depth, is the last thing the run does with its
\* worklists (no later fetch, skip or save), and the run's error is that
\* fetch error.
C5_FetchFailureAborts ==
  \A k \in Fetches : ~log[k].ok => (k = Len(log) /\ err = "FetchError")

\* a fetch has failed in a nested call while the caller, about to return the
\* error, still has worklist entries it has not processed
C5_Witness ==
  /\ phase = "running" /\ err = "FetchError" /\ stack # << >>
  /\ Top.i < Len(Top.filteredImports)
  /\ log[Len(log)].ev = "fetch" /\ ~log[Len(log)].ok /\ log[Len(log)].depth >= 2

\* C6: a root-level run that starts from what a successful run left behind
\* ends with the same manifest (the same identifiers) as that run.
C6_Idempotent ==
  (Succeeded /\ mode = "run" /\ prevManifest.set)
    => ToSet(manifest) = ToSet(prevManifest.m)

\* a second successful root-level run over a manifest of several entries
C6_Witness ==
  /\ Succeeded /\ mode = "run" /\ prevManifest.set /\ runs = 2
  /\ Len(manifest) >= 2 /\ Len(prevManifest.m) >= 2

\* C9: within a run no identifier is fetched twice and the manifest never
\* holds two entries for one identifier.
C9_FetchedOnce ==
  /\ \A j, k \in Fetches : j < k => log[j].pkg # log[k].pkg
  /\ \A j, k \in 1..Len(manifest) : j < k => manifest[j] # manifest[k]

\* the root call skipped a worklist entry that was not in the manifest when
\* the run started: a nested call had vendored it since the worklist was built
C9_Witness ==
  \E k \in 1..Len(log) :
    log[k].ev = "skip" /\ log[k].depth = 1 /\ log[k].pkg \notin ToSet(start.m)

\* the worklist of a vendored package, in one fixed order
NestedWork(p) ==
  IF up[p].st = "ok" /\ ~up[p].ships
  THEN SetToSeq(RemoteImports(up[p].tree)) ELSE << >>

\* the manifest a depth-first run over fixed worklist orders ends with
RECURSIVE Vend(_, _)
Vend(w, m) ==
  IF w = << >> THEN m
  ELSE IF HasImportpath(m, Head(w)) THEN Vend(Tail(w), m)
  ELSE Vend(Tail(w), Vend(NestedWork(Head(w)), Append(m, Head(w))))

Reference ==
  Vend(IF start.crawls THEN SetToSeq(RemoteImports(rootTree)) ELSE << >>, start.m)

\* C10: whatever order each worklist is iterated in, a successful run ends
\* with the identifiers that the run over one fixed order ends with.
C10_OrderIndependent == Succeeded => ToSet(manifest) = ToSet(Reference)

\* a successful run that fetched three packages in an order other than the
\* fixed one
C10_Witness ==
  /\ Succeeded /\ Len(manifest) = 3 /\ start.m = << >>
  /\ manifest # Reference

\* the relative-path markers of the claim
MarkedLocal(n) ==
  \/ n \in {<<".">>, <<".", ".">>}
  \/ (Len(n) >= 2 /\ n[1] = "." /\ n[2] = "/")
  \/ (Len(n) >= 3 /\ n[1] = "." /\ n[2] = "." /\ n[3] = "/")

\* C7 (as stated): a marked identifier is not remote; any other is remote
\* exactly when its locator parses and the part before the first '/' holds
\* a dot.
C7_DotBeforeSlash ==
  remote.done =>
    remote.val = (/\ ~MarkedLocal(name)
                  /\ ~UrlParse(name).err
                  /\ \E k \in 1..Len(name) :
                       name[k] = "." /\ \A j \in 1..(k - 1) : name[j] # "/")

Delims == {"/", "?", "#"}

\* C7 (amended): a marked identifier is not remote; any other is remote
\* exactly when its locator parses and its host holds a dot, the host being
\* the part of the identifier before the first '/', '?' or '#' and after the
\* last '@' of that part.
C7_DotInHost ==
  remote.done =>
    remote.val = (/\ ~MarkedLocal(name)
                  /\ ~UrlParse(name).err
                  /\ \E k \in 1..Len(name) :
                       /\ name[k] = "."
                       /\ \A j \in 1..(k - 1) : name[j] \notin Delims
                       /\ \A j \in (k + 1)..Len(name) :
                            name[j] = "@" =>
                              \E i \in (k + 1)..(j - 1) : name[i] \in Delims)

\* an identifier with user information and a path, classified remote for
\* the dot of its host
C7_Witness ==
  /\ remote.done /\ remote.val
  /\ Contains(name, "@") /\ Contains(name, "/")

\* C8: a walk that ends without error has collected exactly the identifiers
\* the extractor returns for the entries named with the source suffix, each
\* once, whatever the order of the walk.
C8_CollectsUnion ==
  werr = "ok" =>
    imports = UNION {ToSet(sourceFileImports(files[k]).imports) :
                       k \in {j \in 1..Len(files) : HasSuffix(files[j].name, GoSuffix)}}

\* a finished walk over two source files declaring a common identifier and
\* a file without the suffix whose declaration was not collected
C8_Witness ==
  /\ werr = "ok"
  /\ \E j, k \in 1..Len(files) :
       /\ j < k
       /\ HasSuffix(files[j].name, GoSuffix) /\ HasSuffix(files[k].name, GoSuffix)
       /\ ToSet(files[j].lits) \cap ToSet(files[k].lits) # {}
  /\ \E k \in 1..Len(files) :
       /\ ~HasSuffix(files[k].name, GoSuffix)
       /\ \E l \in 1..Len(files[k].lits) : Trim(files[k].lits[l], Q) \notin imports

\* the calls of imports() that are past their crawl
Crawled == {k \in 1..Len(stack) : stack[k].pc = "loop"}

\* C11: a non-root call entered while the vendor directory exists does not
\* walk its tree: its Import Set and worklist are empty, and it returns
\* success with the manifest as it found it; a root call, or a call entered
\* while the vendor directory does not exist, walks its tree.
C11_CrawlOnlyWhenNeeded ==
  /\ \A k \in Crawled :
       /\ stack[k].walked = (stack[k].isRoot \/ ~stack[k].vex)
       /\ ~stack[k].walked =>
            stack[k].used = {} /\ stack[k].filteredImports = << >>
  /\ lastRet.set =>
       /\ lastRet.walked = (lastRet.isRoot \/ ~lastRet.vex)
       /\ ~lastRet.walked =>
            lastRet.ok /\ lastRet.worklist = << >> /\ lastRet.mExit = lastRet.mEntry

\* a nested call for a package that ships a vendor directory has returned
\* without walking, after another nested call walked its tree
C11_Witness ==
  /\ lastRet.set /\ ~lastRet.isRoot /\ lastRet.vex /\ ~lastRet.walked
  /\ lastRet.dir # Root /\ lastRet.ok
  /\ \E k \in 1..Len(log) : log[k].ev = "crawl" /\ log[k].depth >= 2

\* C12 (as stated): the worklist of a call holds exactly the identifiers of
\* its Import Set that are classified remote and were absent from the
\* manifest when the worklist was built; every fetched identifier is remote.
C12_WorklistRemoteUnvendored ==
  /\ \A k \in Crawled :
       ToSet(stack[k].filteredImports)
         = {p \in stack[k].used :
              packageIsRemoteDependency(p) /\ ~HasImportpath(stack[k].m, p)}
  /\ \A k \in Fetches : packageIsRemoteDependency(log[k].pkg)

\* C12 (amended): the worklist of a call holds exactly the identifiers of
\* its Import Set that are classified remote, each once, whether or not the
\* manifest already holds them; every fetched identifier is remote.
C12_WorklistRemote ==
  /\ \A k \in Crawled :
       /\ ToSet(stack[k].filteredImports)
            = {p \in stack[k].used : packageIsRemoteDependency(p)}
       /\ Len(stack[k].filteredImports) = Cardinality(ToSet(stack[k].filteredImports))
  /\ \A k \in Fetches : packageIsRemoteDependency(log[k].pkg)

\* a call whose Import Set holds identifiers that are not remote and whose
\* worklist holds an identifier the manifest held when it was built, after
\* a fetch
C12_Witness ==
  /\ Fetches # {}
  /\ \E k \in Crawled :
       /\ \E p \in stack[k].used : ~packageIsRemoteDependency(p)
       /\ \E j \in 1..Len(stack[k].filteredImports) :
            HasImportpath(stack[k].m, stack[k].filteredImports[j])

CrawlErrs == {"ParseError", "WalkError"}

\* C13: a crawl that fails, in the root call or in a nested one, is the last
\* thing the run does (no later fetch, skip, crawl or save), the run's error
\* is the crawl's error, and the manifest file is not written.
C13_CrawlFailureAborts ==
  \A k \in 1..Len(log) :
    (log[k].ev = "crawl" /\ ~log[k].ok) =>
      /\ k = Len(log)
      /\ err \in CrawlErrs
      /\ mode = "run" => manifestFile = NoFile

\* in a root-level run a nested crawl has failed after a fetch, while the
\* caller, about to return the error, has worklist entries left
C13_Witness ==
  /\ mode = "run" /\ phase = "running" /\ err = "ParseError" /\ stack # << >>
  /\ Top.i < Len(Top.filteredImports)
  /\ log[Len(log)].ev = "crawl" /\ ~log[Len(log)].ok /\ log[Len(log)].depth >= 2

OkFetches == {k \in Fetches : log[k].ok}

\* C14: a root-level run first removes the vendor directory, then loads the
\* manifest, and only then crawls; it saves the manifest once, as its last
\* act, after the root call returned success; a failed run never saves, and
\* its manifest holds the loaded entries and the identifiers fetched so far.
C14_RunLifecycle ==
  mode = "run" =>
    /\ Len(log) >= 2 /\ log[1].ev = "removeAll" /\ log[2].ev = "load"
    /\ \A k \in 3..Len(log) : log[k].ev \notin {"removeAll", "load"}
    /\ \A k \in 1..Len(log) :
         log[k].ev = "save" =>
           /\ k = Len(log) /\ phase = "done" /\ err = NoErr
           /\ lastRet.set /\ lastRet.dir = Root /\ lastRet.isRoot /\ lastRet.ok
           /\ manifestFile = manifest
    /\ Succeeded => log[Len(log)].ev = "save"
    /\ err # NoErr =>
         /\ manifestFile = NoFile
         /\ ToSet(manifest) = ToSet(start.m) \cup {log[k].pkg : k \in OkFetches}
         /\ Len(manifest) = Len(start.m) + Cardinality(OkFetches)

\* a root-level run that failed on a fetch after two successful fetches
C14_Witness ==
  /\ mode = "run" /\ Finished /\ err = "FetchError"
  /\ Cardinality(OkFetches) = 2 /\ Len(manifest) = 2

Delays == {k \in 1..Len(log) : log[k].ev = "delay"}

\* the fetch at position k of the trace comes right after one delay for
\* the same identifier
DelayedFetch(k) ==
  /\ k > 1 /\ log[k - 1].ev = "delay" /\ log[k - 1].pkg = log[k].pkg
  /\ k > 2 => log[k - 2].ev # "delay"

\* every delay is for an entry that passed the manifest check: the fetch of
\* the same identifier follows it at once
DelaysBeforeFetch ==
  \A k \in Delays :
    k < Len(log) /\ log[k + 1].ev = "fetch" /\ log[k + 1].pkg = log[k].pkg

\* C15: a fetch comes right after exactly one pacing delay when
\* the identifier's host is the rate-limited host, and after none when its
\* host is another; no delay is made for a skipped entry.
C15_DelayForHost ==
  /\ \A k \in Fetches : DelayedFetch(k) = (UrlParse(log[k].pkg).Host = GITHUB)
  /\ \A k \in Fetches : ~DelayedFetch(k) => (k = 1 \/ log[k - 1].ev # "delay")
  /\ DelaysBeforeFetch

\* what line 107 does in its place: the delay is made when the identifier
\* begins with the name of the rate-limited host, whatever its host is
DelayForPrefix ==
  /\ \A k \in Fetches : DelayedFetch(k) = HasPrefix(log[k].pkg, GITHUB)
  /\ \A k \in Fetches : ~DelayedFetch(k) => (k = 1 \/ log[k - 1].ev # "delay")
  /\ DelaysBeforeFetch


\* C16: whenever a call of imports(dir, ...) passes a worklist entry to the
\* fetch operation, the Working Directory Context is dir.
C16_FetchInCallDir == \A k \in Fetches : log[k].cwd = log[k].dir

IsOkFetch(e) == e.ev = "fetch" /\ e.ok

\* the identifiers fetched successfully so far, in order
Fetched ==
  LET f == SelectSeq(log, IsOkFetch) IN [k \in 1..Len(f) |-> f[k].pkg]

\* C17: at every point of a run the manifest is the manifest the run started
\* with followed by the identifiers fetched successfully so far: nothing is
\* removed, and a skip or a failed fetch adds nothing.
C17_ManifestGrows == manifest = start.m \o Fetched

\* a call that started with a non-empty manifest has skipped an entry,
\* fetched one and then failed to fetch another
C17_Witness ==
  /\ start.m # << >> /\ Fetched # << >>
  /\ \E k \in 1..Len(log) : log[k].ev = "skip"
  /\ \E k \in Fetches : ~log[k].ok

====
